---- MODULE Spec2Model ----
(***************************************************************************)
(* Model of surrealdb.connections.blocking_http.BlockingHttpSurrealConnection *)
(* One connection instance; every action is one complete method call,      *)
(* the server's answer being chosen nondeterministically.                   *)
(***************************************************************************)
EXTENDS Integers, Sequences, FiniteSets, TLC

\* ---------------------------------------------------------------- bounds
\* number of method calls made on the connection, with blocks entered
\* included, in one behaviour
MaxCalls == 3

\* ------------------------------------------------------------ operations
\* the operation label each method passes to _send and the validator
OperationLabel(op) ==
    CASE op = "authenticate" -> "authenticating"
      [] op = "invalidate" -> "invalidating"
      [] op = "signin" -> "signing in"
      [] op = "info" -> "getting database information"
      [] op = "version" -> "getting database version"
      [] op = "query_raw" -> "query"
      [] OTHER -> op

\* ---------------------------------------------------------------- values
\* Python's None for the Optional[str] fields (a string no input contains)
NoneVal == "<None>"

\* token strings a caller or the server may supply; "" is the empty str
Tokens == {"", "abc", "xyz"}
Namespaces == {"", "ns1", "ns2"}
Databases == {"", "db1"}

\* names and values of session / call-site query variables
VarKeys == {"x", "y"}
VarValues == {1, 2}
\* every dict[str, Any] over VarKeys
VarMaps == UNION {[D -> VarValues] : D \in SUBSET VarKeys}
EmptyDict == [k \in {} |-> 0]

\* Python truthiness of an Optional[str]: None and "" are falsy
Truthy(v) == v # NoneVal /\ v # ""

\* dict.get(key): the value, or None when the key is absent
Get(d, k) == IF k \in DOMAIN d THEN d[k] ELSE NoneVal

\* ---------------------------------------------------------------- state
VARIABLES
    token,      \* self.token
    id,         \* self.id
    namespace,  \* self.namespace
    database,   \* self.database
    vars,       \* self.vars
    session,    \* self.session: the requests.Session it refers to (0: no such attribute)
    sessions,   \* every requests.Session the connection created: "open" or "closed"
    scopes,     \* the with blocks entered and not yet left, innermost first:
                \* for each, the session its __enter__ opened
    calls,      \* method calls made (and with blocks entered) so far
    posted,     \* history: the envelope ids of the requests posted, in order
    authHist,   \* history: what last decided the token (signin / invalidate)
    useHist,    \* history: the arguments of the last successful use
    last        \* history: the call that just returned or raised

allVars == <<token, id, namespace, database, vars, session, sessions, scopes,
            calls, posted, authHist, useHist, last>>

\* what __enter__ and __exit__ work on
transport == <<session, sessions, scopes>>

\* snapshot of the session fields, taken when a call starts
Session == [token |-> token, namespace |-> namespace,
            database |-> database, vars |-> vars]

\* ------------------------------------------------------------ exceptions
NoExc == [type |-> "none", code |-> 0, operation |-> ""]
HTTPError(status) == [type |-> "HTTPError", code |-> status, operation |-> ""]
RemoteError(code, operation) ==
    [type |-> "RemoteError", code |-> code, operation |-> operation]
ProtocolError(operation) ==
    [type |-> "ProtocolError", code |-> 0, operation |-> operation]
\* IndexError / KeyError / TypeError raised by a subscript
LookupError == [type |-> "LookupError", code |-> 0, operation |-> ""]
\* KeyError raised by dict.pop
KeyError == [type |-> "KeyError", code |-> 0, operation |-> ""]

\* ------------------------------------------------------- server responses
ErrorCodes == {100, 200}
EmptyPayload == [k \in {} |-> 0]
ErrorObjects == {[code |-> c, message |-> "boom"] : c \in ErrorCodes}

\* decoded payloads: neither field, an error (code 100), a result, or both
\* an error (code 200) and a result
Payloads(results) ==
    {EmptyPayload}
    \cup {[error |-> e] : e \in {o \in ErrorObjects : o.code = 100}}
    \cup {[result |-> r] : r \in results}
    \cup {[error |-> e, result |-> CHOOSE r \in results : TRUE] :
            e \in {o \in ErrorObjects : o.code = 200}}

\* the plain successful answer carrying result r
Ok(r) == [status |-> 200, payload |-> [result |-> r]]

\* what requests.post may bring back for one call: a server failure whose
\* body holds an error object, or a success with one of the payloads
Responses(results) ==
    {[status |-> 500, payload |-> [error |-> e]] :
        e \in {o \in ErrorObjects : o.code = 100}}
    \cup {[status |-> 200, payload |-> p] : p \in Payloads(results)}

\* results the server may give per kind of operation
TokenResults == Tokens
NullResults == {NoneVal}
DataResults == {<<[id |-> "t:1"]>>}
QueryResults ==
    { <<>>,
      <<[result |-> <<[id |-> "t:1"]>>]>>,
      <<[result |-> <<[id |-> "t:1"]>>], [result |-> <<[id |-> "t:2"]>>]>>,
      <<[status |-> "ERR"]>> }

\* ------------------------------------------------------------- envelope
\* RequestMessage(method, **kwargs): a fresh id (the n-th envelope of the
\* connection gets the id n; 0 is the id __init__ draws), the method, the
\* keyword arguments
\* RequestMessage handing every envelope the same id
RequestMessage_SameId(n, method, kwargs) ==
    [id |-> 1, method |-> method, kwargs |-> kwargs]

RequestMessage(n, method, kwargs) ==
    [id |-> n, method |-> method, kwargs |-> kwargs]

\* ------------------------------------------------------------ validator
\* UtilsMixin.check_response_for_error: the exception it raises, or NoExc
check_response_for_error(response, operation) ==
    IF "error" \in DOMAIN response
    THEN RemoteError(response.error.code, operation)
    ELSE NoExc

\* UtilsMixin.check_response_for_result: the exception it raises, or NoExc
check_response_for_result(response, operation) ==
    IF "result" \in DOMAIN response THEN NoExc ELSE ProtocolError(operation)

\* ----------------------------------------------------------- dispatcher
\* response.raise_for_status(): raises for a 4xx / 5xx status
raise_for_status(status) == status >= 400 /\ status < 600

\* _send with the Authorization header forgotten
SendHeaders_NoAuth(tok, ns, db) ==
    [h \in {"Accept", "Content-Type"}
        \cup (IF Truthy(ns) THEN {"Surreal-NS"} ELSE {})
        \cup (IF Truthy(db) THEN {"Surreal-DB"} ELSE {})
     |-> CASE h = "Surreal-NS" -> <<ns>>
           [] h = "Surreal-DB" -> <<db>>
           [] OTHER -> <<"application/cbor">>]

\* _send with the Surreal-DB header forgotten
SendHeaders_NoDB(tok, ns, db) ==
    [h \in {"Accept", "Content-Type"}
        \cup (IF Truthy(tok) THEN {"Authorization"} ELSE {})
        \cup (IF Truthy(ns) THEN {"Surreal-NS"} ELSE {})
     |-> CASE h = "Authorization" -> <<"Bearer", tok>>
           [] h = "Surreal-NS" -> <<ns>>
           [] OTHER -> <<"application/cbor">>]

\* the headers _send builds from the session fields
SendHeaders(tok, ns, db) ==
    [h \in {"Accept", "Content-Type"}
        \cup (IF Truthy(tok) THEN {"Authorization"} ELSE {})
        \cup (IF Truthy(ns) THEN {"Surreal-NS"} ELSE {})
        \cup (IF Truthy(db) THEN {"Surreal-DB"} ELSE {})
     |-> CASE h = "Authorization" -> <<"Bearer", tok>>
           [] h = "Surreal-NS" -> <<ns>>
           [] h = "Surreal-DB" -> <<db>>
           [] OTHER -> <<"application/cbor">>]

\* _send that never looks for an error in the decoded response
Send_NoErrorCheck(tok, message, operation, bypass, resp) ==
    LET req == [url |-> "/rpc",
                headers |-> SendHeaders(tok, namespace, database),
                data |-> message]
    IN  IF raise_for_status(resp.status)
        THEN [req |-> req, resp |-> resp, exc |-> HTTPError(resp.status),
              data |-> EmptyPayload]
        ELSE [req |-> req, resp |-> resp, exc |-> NoExc, data |-> resp.payload]

\* _send(message, operation, bypass) with self.token = tok, answered by resp:
\* the request posted, the exception raised (if any), the dict returned
\* _send that decodes and validates the body before looking at the status
Send_ValidatesFirst(tok, message, operation, bypass, resp) ==
    LET req == [url |-> "/rpc",
                headers |-> SendHeaders(tok, namespace, database),
                data |-> message]
        err == check_response_for_error(resp.payload, operation)
    IN  IF ~bypass /\ err.type # "none"
        THEN [req |-> req, resp |-> resp, exc |-> err, data |-> EmptyPayload]
        ELSE IF raise_for_status(resp.status)
        THEN [req |-> req, resp |-> resp, exc |-> HTTPError(resp.status),
              data |-> EmptyPayload]
        ELSE [req |-> req, resp |-> resp, exc |-> NoExc, data |-> resp.payload]

Send(tok, message, operation, bypass, resp) ==
    LET req == [url |-> "/rpc",
                headers |-> SendHeaders(tok, namespace, database),
                data |-> message]
        err == check_response_for_error(resp.payload, operation)
    IN  IF raise_for_status(resp.status)
        THEN [req |-> req, resp |-> resp, exc |-> HTTPError(resp.status),
              data |-> EmptyPayload]
        ELSE IF ~bypass /\ err.type # "none"
        THEN [req |-> req, resp |-> resp, exc |-> err, data |-> EmptyPayload]
        ELSE [req |-> req, resp |-> resp, exc |-> NoExc, data |-> resp.payload]

\* exception of a validated call: _send's, else check_response_for_result's
Checked(r, operation) ==
    IF r.exc.type # "none" THEN r.exc
    ELSE check_response_for_result(r.data, operation)

\* ------------------------------------------------------------- history
NoAuth == [kind |-> "none", tok |-> NoneVal]
SignedIn(t) == [kind |-> "signin", tok |-> t]
Invalidated == [kind |-> "invalidated", tok |-> NoneVal]
NoUse == <<>>

\* the record kept of a call that posted a request (repeat: the call before
\* it was the same call, with the same arguments, and raised)
Sent(op, args, r, exc, ret, hist) ==
    [op |-> op, args |-> args, sent |-> TRUE, req |-> r.req, resp |-> r.resp,
     exc |-> exc, ret |-> ret,
     pre |-> Session, authAtSend |-> hist, useAtSend |-> useHist,
     repeat |-> last.op = op /\ last.args = args /\ last.exc.type # "none"]

\* placeholders in the record of a call that posted nothing
NoRequest ==
    [url |-> "", headers |-> EmptyPayload,
     data |-> [id |-> 0, method |-> "", kwargs |-> EmptyPayload]]
NoResponse == [status |-> 0, payload |-> EmptyPayload]

\* the record kept of a call that posted nothing
Local(op, args, exc) ==
    [op |-> op, args |-> args, sent |-> FALSE, req |-> NoRequest,
     resp |-> NoResponse, exc |-> exc, ret |-> NoneVal,
     pre |-> Session, authAtSend |-> authHist, useAtSend |-> useHist,
     repeat |-> FALSE]

\* a token-changing call that is not a successful signin ends the signin's
\* or invalidate's reign over the token once the token really changes
HistAfter(newTok) == IF newTok # token THEN NoAuth ELSE authHist

\* the id the next RequestMessage draws
FreshId == Len(posted) + 1

\* ---------------------------------------------------------------- Init
Init ==
    /\ token = NoneVal
    /\ id = 0
    /\ namespace = NoneVal
    /\ database = NoneVal
    /\ vars = EmptyDict
    /\ session = 0
    /\ sessions = <<>>
    /\ scopes = <<>>
    /\ calls = 0
    /\ posted = <<>>
    /\ authHist = NoAuth
    /\ useHist = NoUse
    /\ last = Local("__init__", EmptyDict, NoExc)

\* ------------------------------------------------------------- actions
set_token(tok) ==
    /\ calls < MaxCalls
    /\ calls' = calls + 1
    /\ token' = tok
    /\ authHist' = HistAfter(tok)
    /\ last' = Local("set_token", [token |-> tok], NoExc)
    /\ UNCHANGED <<id, namespace, database, vars, useHist>>
    /\ UNCHANGED transport
    /\ UNCHANGED posted

authenticate(tok, resp) ==
    /\ calls < MaxCalls
    /\ LET message == RequestMessage(FreshId, "authenticate", [token |-> tok])
           r == Send(tok, message, "authenticating", FALSE, resp)
       IN  /\ token' = tok
           /\ id' = message.id
           /\ posted' = Append(posted, r.req.data.id)
           /\ authHist' = HistAfter(tok)
           /\ last' = Sent("authenticate", [token |-> tok], r, r.exc, NoneVal,
                           HistAfter(tok))
    /\ calls' = calls + 1
    /\ UNCHANGED <<namespace, database, vars, useHist>>
    /\ UNCHANGED transport

\* invalidate with the token cleared before the request is sent
invalidate_clears_first(resp) ==
    /\ calls < MaxCalls
    /\ LET message == RequestMessage(FreshId, "invalidate", EmptyDict)
           r == Send(NoneVal, message, "invalidating", FALSE, resp)
       IN  /\ id' = message.id
           /\ posted' = Append(posted, r.req.data.id)
           /\ token' = NoneVal
           /\ authHist' = IF r.exc.type = "none" THEN Invalidated ELSE authHist
           /\ last' = Sent("invalidate", EmptyDict, r, r.exc, NoneVal, authHist)
    /\ calls' = calls + 1
    /\ UNCHANGED <<namespace, database, vars, useHist>>
    /\ UNCHANGED transport

invalidate(resp) ==
    /\ calls < MaxCalls
    /\ LET message == RequestMessage(FreshId, "invalidate", EmptyDict)
           r == Send(token, message, "invalidating", FALSE, resp)
       IN  /\ id' = message.id
           /\ posted' = Append(posted, r.req.data.id)
           /\ token' = IF r.exc.type = "none" THEN NoneVal ELSE token
           /\ authHist' = IF r.exc.type = "none" THEN Invalidated ELSE authHist
           /\ last' = Sent("invalidate", EmptyDict, r, r.exc, NoneVal, authHist)
    /\ calls' = calls + 1
    /\ UNCHANGED <<namespace, database, vars, useHist>>
    /\ UNCHANGED transport

signup(vars_, resp) ==
    /\ calls < MaxCalls
    /\ LET message == RequestMessage(FreshId, "signup", [data |-> vars_])
           r == Send(token, message, "signup", FALSE, resp)
           exc == Checked(r, "signup")
           ok == exc.type = "none"
       IN  /\ id' = message.id
           /\ posted' = Append(posted, r.req.data.id)
           /\ token' = IF ok THEN r.data.result ELSE token
           /\ authHist' = IF ok THEN HistAfter(r.data.result) ELSE authHist
           /\ last' = Sent("signup", [vars |-> vars_], r, exc,
                           IF ok THEN r.data.result ELSE NoneVal, authHist)
    /\ calls' = calls + 1
    /\ UNCHANGED <<namespace, database, vars, useHist>>
    /\ UNCHANGED transport

signin(vars_, resp) ==
    /\ calls < MaxCalls
    /\ LET message == RequestMessage(FreshId, "signin",
                          [username |-> Get(vars_, "username"),
                           password |-> Get(vars_, "password"),
                           access |-> Get(vars_, "access"),
                           database |-> Get(vars_, "database"),
                           namespace |-> Get(vars_, "namespace"),
                           variables |-> Get(vars_, "variables")])
           r == Send(token, message, "signing in", FALSE, resp)
           exc == Checked(r, "signing in")
           ok == exc.type = "none"
       IN  /\ id' = message.id
           /\ posted' = Append(posted, r.req.data.id)
           /\ token' = IF ok THEN r.data.result ELSE token
           /\ authHist' = IF ok THEN SignedIn(r.data.result) ELSE authHist
           /\ last' = Sent("signin", [vars |-> vars_], r, exc,
                           IF ok THEN r.data.result ELSE NoneVal, authHist)
    /\ calls' = calls + 1
    /\ UNCHANGED <<namespace, database, vars, useHist>>
    /\ UNCHANGED transport

\* the tail shared by the calls that return response["result"] and leave the
\* session alone: post, validate, return
\* the shared tail with self.id assigned only once the call has succeeded
ReturnResult_IdOnSuccess(op, args, message, operation, resp) ==
    /\ calls < MaxCalls
    /\ LET r == Send(token, message, operation, FALSE, resp)
           exc == Checked(r, operation)
       IN  /\ last' = Sent(op, args, r, exc,
                           IF exc.type = "none" THEN r.data.result ELSE NoneVal,
                           authHist)
           /\ id' = IF exc.type = "none" THEN message.id ELSE id
    /\ posted' = Append(posted, message.id)
    /\ calls' = calls + 1
    /\ UNCHANGED <<token, namespace, database, vars, authHist, useHist>>
    /\ UNCHANGED transport

ReturnResult(op, args, message, operation, resp) ==
    /\ calls < MaxCalls
    /\ LET r == Send(token, message, operation, FALSE, resp)
           exc == Checked(r, operation)
       IN  last' = Sent(op, args, r, exc,
                        IF exc.type = "none" THEN r.data.result ELSE NoneVal,
                        authHist)
    /\ id' = message.id
    /\ posted' = Append(posted, message.id)
    /\ calls' = calls + 1
    /\ UNCHANGED <<token, namespace, database, vars, authHist, useHist>>
    /\ UNCHANGED transport

info(resp) ==
    ReturnResult("info", EmptyDict, RequestMessage(FreshId, "info", EmptyDict),
                 "getting database information", resp)

\* use with self.namespace assigned before the request is sent
use_assigns_first(namespace_, database_, resp) ==
    /\ calls < MaxCalls
    /\ LET message == RequestMessage(FreshId, "use",
                          [namespace |-> namespace_, database |-> database_])
           r == Send(token, message, "use", FALSE, resp)
           ok == r.exc.type = "none"
       IN  /\ id' = message.id
           /\ posted' = Append(posted, r.req.data.id)
           /\ namespace' = namespace_
           /\ database' = IF ok THEN database_ ELSE database
           /\ useHist' = IF ok THEN <<namespace_, database_>> ELSE useHist
           /\ last' = Sent("use", [namespace |-> namespace_, database |-> database_],
                           r, r.exc, NoneVal, authHist)
    /\ calls' = calls + 1
    /\ UNCHANGED <<token, vars, authHist>>
    /\ UNCHANGED transport

\* use that assigns self.namespace only
use_forgets_database(namespace_, database_, resp) ==
    /\ calls < MaxCalls
    /\ LET message == RequestMessage(FreshId, "use",
                          [namespace |-> namespace_, database |-> database_])
           r == Send(token, message, "use", FALSE, resp)
           ok == r.exc.type = "none"
       IN  /\ id' = message.id
           /\ posted' = Append(posted, r.req.data.id)
           /\ namespace' = IF ok THEN namespace_ ELSE namespace
           /\ useHist' = IF ok THEN <<namespace_, database_>> ELSE useHist
           /\ last' = Sent("use", [namespace |-> namespace_, database |-> database_],
                           r, r.exc, NoneVal, authHist)
    /\ calls' = calls + 1
    /\ UNCHANGED <<token, database, vars, authHist>>
    /\ UNCHANGED transport

use(namespace_, database_, resp) ==
    /\ calls < MaxCalls
    /\ LET message == RequestMessage(FreshId, "use",
                          [namespace |-> namespace_, database |-> database_])
           r == Send(token, message, "use", FALSE, resp)
           ok == r.exc.type = "none"
       IN  /\ id' = message.id
           /\ posted' = Append(posted, r.req.data.id)
           /\ namespace' = IF ok THEN namespace_ ELSE namespace
           /\ database' = IF ok THEN database_ ELSE database
           /\ useHist' = IF ok THEN <<namespace_, database_>> ELSE useHist
           /\ last' = Sent("use", [namespace |-> namespace_, database |-> database_],
                           r, r.exc, NoneVal, authHist)
    /\ calls' = calls + 1
    /\ UNCHANGED <<token, vars, authHist>>
    /\ UNCHANGED transport

\* the merge with the caller's value kept for a key present in both
MergeVars_CallerWins(callerVars, bound) ==
    [k \in DOMAIN callerVars \cup DOMAIN bound |->
        IF k \in DOMAIN callerVars THEN callerVars[k] ELSE bound[k]]

\* the loop "for key, value in self.vars.items(): vars[key] = value"
MergeVars(callerVars, bound) ==
    [k \in DOMAIN callerVars \cup DOMAIN bound |->
        IF k \in DOMAIN bound THEN bound[k] ELSE callerVars[k]]

\* "if vars is None: vars = {}" -- an Optional[dict] argument is <<>> for
\* None and <<d>> for the dict d
OrEmpty(opt) == IF opt = <<>> THEN EmptyDict ELSE opt[1]

\* response["result"][0]["result"]: can the subscripts be taken
Unwrappable(result) == Len(result) > 0 /\ "result" \in DOMAIN result[1]

\* the unwrapping taking the last statement instead of the first
Unwrap_LastStatement(result) == result[Len(result)].result

\* response["result"][0]["result"] (Python's index 0 is the first element)
Unwrap(result) == result[1].result

\* query keeping the merged mapping as the connection's bound variables
query_binds_params(query_, vars_, resp) ==
    /\ calls < MaxCalls
    /\ LET params == MergeVars(OrEmpty(vars_), vars)
           message == RequestMessage(FreshId, "query",
                          [query |-> query_, params |-> params])
           r == Send(token, message, "query", FALSE, resp)
           chk == Checked(r, "query")
           exc == IF chk.type # "none" THEN chk
                  ELSE IF Unwrappable(r.data.result) THEN NoExc ELSE LookupError
       IN  /\ id' = message.id
           /\ posted' = Append(posted, r.req.data.id)
           /\ vars' = params
           /\ last' = Sent("query",
                           [query |-> query_, vars |-> vars_,
                            vars_after |-> IF vars_ = <<>> THEN <<>> ELSE <<params>>],
                           r, exc,
                           IF exc.type = "none" THEN Unwrap(r.data.result)
                           ELSE NoneVal,
                           authHist)
    /\ calls' = calls + 1
    /\ UNCHANGED <<token, namespace, database, authHist, useHist>>
    /\ UNCHANGED transport

query(query_, vars_, resp) ==
    /\ calls < MaxCalls
    /\ LET params == MergeVars(OrEmpty(vars_), vars)
           message == RequestMessage(FreshId, "query",
                          [query |-> query_, params |-> params])
           r == Send(token, message, "query", FALSE, resp)
           chk == Checked(r, "query")
           exc == IF chk.type # "none" THEN chk
                  ELSE IF Unwrappable(r.data.result) THEN NoExc ELSE LookupError
       IN  /\ id' = message.id
           /\ posted' = Append(posted, r.req.data.id)
           /\ last' = Sent("query",
                           [query |-> query_, vars |-> vars_,
                            vars_after |-> IF vars_ = <<>> THEN <<>> ELSE <<params>>],
                           r, exc,
                           IF exc.type = "none" THEN Unwrap(r.data.result)
                           ELSE NoneVal,
                           authHist)
    /\ calls' = calls + 1
    /\ UNCHANGED <<token, namespace, database, vars, authHist, useHist>>
    /\ UNCHANGED transport

query_raw(query_, params_, resp) ==
    /\ calls < MaxCalls
    /\ LET params == MergeVars(OrEmpty(params_), vars)
           message == RequestMessage(FreshId, "query",
                          [query |-> query_, params |-> params])
           r == Send(token, message, "query", TRUE, resp)
       IN  /\ id' = message.id
           /\ posted' = Append(posted, r.req.data.id)
           /\ last' = Sent("query_raw",
                           [query |-> query_, vars |-> params_,
                            vars_after |-> IF params_ = <<>> THEN <<>> ELSE <<params>>],
                           r, r.exc,
                           IF r.exc.type = "none" THEN r.data ELSE EmptyPayload,
                           authHist)
    /\ calls' = calls + 1
    /\ UNCHANGED <<token, namespace, database, vars, authHist, useHist>>
    /\ UNCHANGED transport

\* ---------------------------------------------------- "thing" arguments
\* a str is [type |-> "str", value |-> its characters]
Str(chars) == [type |-> "str", value |-> chars]
RecordID(table_name, identifier) ==
    [type |-> "RecordID", table_name |-> table_name, identifier |-> identifier]
Table(table_name) == [type |-> "Table", table_name |-> table_name]

\* ":" in s
HasColon(s) == \E i \in 1..Len(s) : s[i] = ":"

\* str.split(":"): the pieces between every two separators
RECURSIVE split(_)
split(s) ==
    IF ~HasColon(s) THEN <<s>>
    ELSE LET i == CHOOSE j \in 1..Len(s) :
                    s[j] = ":" /\ \A k \in 1..(j - 1) : s[k] # ":"
         IN  <<SubSeq(s, 1, i - 1)>> \o split(SubSeq(s, i + 1, Len(s)))

\* create's treatment of its thing argument (buffer[0] is the first piece)
create_thing(thing) ==
    IF thing.type = "str" /\ HasColon(thing.value)
    THEN LET buffer == split(thing.value)
         IN  RecordID(buffer[1], buffer[2])
    ELSE thing

create(thing, data, resp) ==
    ReturnResult("create", [thing |-> thing, data |-> data],
                 RequestMessage(FreshId, "create",
                                [collection |-> create_thing(thing), data |-> data]),
                 "create", resp)

delete(thing, resp) ==
    ReturnResult("delete", [thing |-> thing],
                 RequestMessage(FreshId, "delete", [record_id |-> thing]),
                 "delete", resp)

insert(table, data, resp) ==
    ReturnResult("insert", [table |-> table, data |-> data],
                 RequestMessage(FreshId, "insert",
                                [collection |-> table, params |-> data]),
                 "insert", resp)

insert_relation(table, data, resp) ==
    ReturnResult("insert_relation", [table |-> table, data |-> data],
                 RequestMessage(FreshId, "insert_relation",
                                [table |-> table, params |-> data]),
                 "insert_relation", resp)

let(key, value) ==
    /\ calls < MaxCalls
    /\ calls' = calls + 1
    /\ vars' = [k \in DOMAIN vars \cup {key} |-> IF k = key THEN value ELSE vars[k]]
    /\ last' = Local("let", [key |-> key, value |-> value], NoExc)
    /\ UNCHANGED <<token, id, namespace, database, authHist, useHist>>
    /\ UNCHANGED transport
    /\ UNCHANGED posted

\* unset written as self.vars.pop(key, None): a missing key is no error
unset_pop_default(key) ==
    /\ calls < MaxCalls
    /\ calls' = calls + 1
    /\ vars' = IF key \in DOMAIN vars
               THEN [k \in DOMAIN vars \ {key} |-> vars[k]]
               ELSE vars
    /\ last' = Local("unset", [key |-> key], NoExc)
    /\ UNCHANGED <<token, id, namespace, database, authHist, useHist>>
    /\ UNCHANGED transport
    /\ UNCHANGED posted

unset(key) ==
    /\ calls < MaxCalls
    /\ calls' = calls + 1
    /\ vars' = IF key \in DOMAIN vars
               THEN [k \in DOMAIN vars \ {key} |-> vars[k]]
               ELSE vars
    /\ last' = Local("unset", [key |-> key],
                     IF key \in DOMAIN vars THEN NoExc ELSE KeyError)
    /\ UNCHANGED <<token, id, namespace, database, authHist, useHist>>
    /\ UNCHANGED transport
    /\ UNCHANGED posted

merge(thing, data, resp) ==
    ReturnResult("merge", [thing |-> thing, data |-> data],
                 RequestMessage(FreshId, "merge",
                                [record_id |-> thing, data |-> data]),
                 "merge", resp)

patch(thing, data, resp) ==
    ReturnResult("patch", [thing |-> thing, data |-> data],
                 RequestMessage(FreshId, "patch",
                                [collection |-> thing, params |-> data]),
                 "patch", resp)

select(thing, resp) ==
    ReturnResult("select", [thing |-> thing],
                 RequestMessage(FreshId, "select", [params |-> <<thing>>]),
                 "select", resp)

update(thing, data, resp) ==
    ReturnResult("update", [thing |-> thing, data |-> data],
                 RequestMessage(FreshId, "update",
                                [record_id |-> thing, data |-> data]),
                 "update", resp)

version(resp) ==
    ReturnResult("version", EmptyDict,
                 RequestMessage(FreshId, "version", EmptyDict),
                 "getting database version", resp)

upsert(thing, data, resp) ==
    ReturnResult("upsert", [thing |-> thing, data |-> data],
                 RequestMessage(FreshId, "upsert",
                                [record_id |-> thing, data |-> data]),
                 "upsert", resp)

\* __enter__: a new requests.Session is created and bound to self.session
__enter__ ==
    /\ calls < MaxCalls
    /\ calls' = calls + 1
    /\ sessions' = Append(sessions, "open")
    /\ session' = Len(sessions) + 1
    /\ scopes' = <<Len(sessions) + 1>> \o scopes
    /\ last' = Local("__enter__", EmptyDict, NoExc)
    /\ UNCHANGED <<token, id, namespace, database, vars, authHist, useHist>>
    /\ UNCHANGED posted

\* __exit__ at the end of the innermost with block, left normally
\* (exc_type None) or by an exception: self.session, if the attribute exists,
\* is closed (closing a closed session changes nothing); None is returned, so
\* an exception goes on to the caller. Leaving a block is no call of its own:
\* the with statement that entered it was counted at __enter__
__exit__(exc_type) ==
    /\ scopes # <<>>
    /\ sessions' = IF session # 0
                   THEN [sessions EXCEPT ![session] = "closed"]
                   ELSE sessions
    /\ scopes' = Tail(scopes)
    /\ last' = Local("__exit__", [exc_type |-> exc_type, scope |-> Head(scopes)],
                     NoExc)
    /\ UNCHANGED <<token, id, namespace, database, vars, session, calls,
                   authHist, useHist>>
    /\ UNCHANGED posted

\* ---------------------------------------------------------- call inputs
\* "person", "person:1" and "a:b:c" as character sequences
ThingStrings ==
    {<<"p">>, <<"p", ":", "1">>, <<"a", ":", "b", ":", "c">>}
Things ==
    {Str(s) : s \in ThingStrings} \cup {RecordID(<<"p">>, <<"1">>)}
TableArgs == {Str(<<"p">>), Table(<<"p">>)}
DataArgs == {[name |-> "a"]}
Credentials ==
    {[username |-> "u", password |-> "p"],
     [namespace |-> "ns1", database |-> "db1", access |-> "acc",
      variables |-> [email |-> "e"]]}
Queries == {"RETURN $x"}
\* the mapping a caller passes to query: None, or a dict giving some of the
\* keys the value 2
OptVarMaps == {<<>>} \cup {<<[k \in D |-> 2]>> : D \in SUBSET VarKeys}
InfoResults == {[name |-> "u"]}
VersionResults == {"surrealdb-2.0"}
\* the exc_type a with block hands to __exit__: None, or the exception's class
ExcTypes == {NoneVal, "Exception"}

\* argument / answer pairs explored for one operation: every argument with
\* the plain successful answer, and the argument a0 with every answer
Inputs(args, a0, results, r0) ==
    {<<a, Ok(r0)>> : a \in args} \cup {<<a0, resp>> : resp \in Responses(results)}

ThingInputs == Inputs(Things, Str(<<"p">>), DataResults, <<[id |-> "t:1"]>>)
TableInputs == Inputs(TableArgs, Str(<<"p">>), DataResults, <<[id |-> "t:1"]>>)
QueryInputs ==
    Inputs(OptVarMaps, <<[x |-> 2]>>, QueryResults,
           <<[result |-> <<[id |-> "t:1"]>>]>>)
UseInputs ==
    Inputs(Namespaces \X Databases, <<"ns1", "db1">>, NullResults, NoneVal)
TokenInputs == Inputs(Tokens, "abc", NullResults, NoneVal)
CredentialInputs ==
    Inputs(Credentials, [username |-> "u", password |-> "p"], TokenResults, "abc")

Next ==
    \/ \E tok \in Tokens : set_token(tok)
    \/ \E in \in TokenInputs : authenticate(in[1], in[2])
    \/ \E resp \in Responses(NullResults) : invalidate(resp)
    \/ \E in \in CredentialInputs : signup(in[1], in[2])
    \/ \E in \in CredentialInputs : signin(in[1], in[2])
    \/ \E resp \in Responses(InfoResults) : info(resp)
    \/ \E in \in UseInputs : use(in[1][1], in[1][2], in[2])
    \/ \E q \in Queries, in \in QueryInputs : query(q, in[1], in[2])
    \/ \E q \in Queries, in \in QueryInputs : query_raw(q, in[1], in[2])
    \/ \E in \in ThingInputs, d \in DataArgs : create(in[1], d, in[2])
    \/ \E in \in ThingInputs : delete(in[1], in[2])
    \/ \E in \in TableInputs, d \in DataArgs : insert(in[1], d, in[2])
    \/ \E in \in TableInputs, d \in DataArgs : insert_relation(in[1], d, in[2])
    \/ \E k \in VarKeys, v \in VarValues : let(k, v)
    \/ \E k \in VarKeys : unset(k)
    \/ \E in \in ThingInputs, d \in DataArgs : merge(in[1], d, in[2])
    \/ \E in \in ThingInputs, d \in DataArgs : patch(in[1], d, in[2])
    \/ \E in \in ThingInputs : select(in[1], in[2])
    \/ \E in \in ThingInputs, d \in DataArgs : update(in[1], d, in[2])
    \/ \E resp \in Responses(VersionResults) : version(resp)
    \/ \E in \in ThingInputs, d \in DataArgs : upsert(in[1], d, in[2])
    \/ __enter__
    \/ \E exc_type \in ExcTypes : __exit__(exc_type)

Spec == Init /\ [][Next]_allVars

\* ------------------------------------------------------------ properties
\* the headers of the request the last call posted
Headers == last.req.headers
Carries(h) == h \in DOMAIN Headers

C2_UseAtomic ==
    (last.op = "use" /\ last.exc.type # "none") =>
        /\ namespace = last.pre.namespace
        /\ database = last.pre.database

\* a use("ns1", "db1") that failed on a connection using ("ns2", "db1")
C2_Witness ==
    /\ last.op = "use" /\ last.exc.type = "RemoteError"
    /\ last.args.namespace = "ns1"
    /\ last.pre.namespace = "ns2" /\ namespace = "ns2" /\ database = "db1"

\* C3: the params a query / query_raw call transmits are the caller's mapping
\* (empty when none was given) overwritten by every bound variable: a key in
\* both carries the bound value, a key only the caller gave carries the
\* caller's value.
C3_BoundOverride ==
    last.op \in {"query", "query_raw"} =>
        LET sentParams == last.req.data.kwargs.params
            caller == OrEmpty(last.args.vars)
            bound == last.pre.vars
        IN  /\ DOMAIN sentParams = DOMAIN caller \cup DOMAIN bound
            /\ \A k \in DOMAIN bound : sentParams[k] = bound[k]
            /\ \A k \in DOMAIN caller \ DOMAIN bound : sentParams[k] = caller[k]

\* let("x", 1) then query(q, {"x": 2, "y": 2}): x goes out as 1, y as 2
C3_Witness ==
    /\ last.op = "query"
    /\ last.pre.vars = [x |-> 1]
    /\ last.args.vars = <<[x |-> 2, y |-> 2]>>
    /\ last.req.data.kwargs.params = [x |-> 1, y |-> 2]

\* the last call was answered (HTTP success) by a payload carrying an error
ErrorAnswered ==
    last.sent /\ last.resp.status = 200 /\ "error" \in DOMAIN last.resp.payload

\* C4: a call answered by a payload with an error object raises RemoteError
\* with the server's code and the operation's label and returns nothing,
\* whichever validated operation it is; query_raw raises nothing and returns
\* the decoded payload as it came.
C4_ErrorSurfacing ==
    ErrorAnswered =>
        IF last.op = "query_raw"
        THEN last.exc = NoExc /\ last.ret = last.resp.payload
        ELSE /\ last.exc = RemoteError(last.resp.payload.error.code,
                                       OperationLabel(last.op))
             /\ last.ret = NoneVal

\* a signin answered by {error: {code: 200}} raised RemoteError(200)
C4_Witness ==
    /\ ErrorAnswered /\ last.op = "signin"
    /\ last.resp.payload.error.code = 200
    /\ last.exc.type = "RemoteError"

\* the last call was answered by a payload with no error and a non-empty list
\* as result
ListAnswered ==
    /\ last.sent /\ last.resp.status = 200
    /\ DOMAIN last.resp.payload = {"result"}
    /\ Len(last.resp.payload.result) > 0

\* C5: on a payload {result: [s, ...]} with no error, query returns s.result,
\* the inner result of the first statement only; query_raw returns the whole
\* payload.
C5_ResultUnwrapping ==
    (last.op \in {"query", "query_raw"} /\ ListAnswered) =>
        LET s == last.resp.payload.result[1]
        IN  IF last.op = "query"
            THEN "result" \in DOMAIN s => (last.exc = NoExc /\ last.ret = s.result)
            ELSE last.exc = NoExc /\ last.ret = last.resp.payload

\* a query answered by two statements returned the first statement's rows
C5_Witness ==
    /\ last.op = "query" /\ ListAnswered
    /\ Len(last.resp.payload.result) = 2
    /\ last.ret = <<[id |-> "t:1"]>>

\* the operations taking a "thing", and the thing their envelope carries
ThingOps == {"create", "delete", "select", "update", "merge", "patch", "upsert"}
ThingSent ==
    LET kwargs == last.req.data.kwargs
    IN  CASE last.op \in {"create", "patch"} -> kwargs.collection
          [] last.op = "select" -> kwargs.params[1]
          [] OTHER -> kwargs.record_id

\* the text before / after the first ":" of s
FirstColon(s) == CHOOSE j \in 1..Len(s) : s[j] = ":" /\ \A k \in 1..(j - 1) : s[k] # ":"
BeforeColon(s) == SubSeq(s, 1, FirstColon(s) - 1)
AfterColon(s) == SubSeq(s, FirstColon(s) + 1, Len(s))
OneColon(s) == Cardinality({i \in 1..Len(s) : s[i] = ":"}) = 1

\* C6: every operation taking a thing sends, for a str thing containing ":",
\* a record reference whose table is the text before the ":" and whose
\* identifier is the text after it (delete("person:1") sends table "person",
\* identifier "1"), and sends a str without ":" unchanged.
C6_IdentifierNormalization ==
    (last.op \in ThingOps /\ last.args.thing.type = "str") =>
        LET s == last.args.thing.value
        IN  IF HasColon(s)
            THEN /\ ThingSent.type = "RecordID"
                 /\ ThingSent.table_name = BeforeColon(s)
                 /\ OneColon(s) => ThingSent.identifier = AfterColon(s)
            ELSE ThingSent = last.args.thing

\* namespace and database are both set (each to a non-empty string) when the
\* last call started
BothSet == Truthy(last.pre.namespace) /\ Truthy(last.pre.database)

\* C7: a request carries Surreal-NS and Surreal-DB exactly when namespace and
\* database are both set, and never one header without the other.
C7_NsDbHeaders_AnyName ==
    last.sent =>
        /\ Carries("Surreal-NS") <=> Carries("Surreal-DB")
        /\ Carries("Surreal-NS") <=> BothSet

\* C7, the part the code keeps: the same for every request sent while neither
\* namespace nor database is the empty string.
C7_NsDbHeaders ==
    (last.sent /\ last.pre.namespace # "" /\ last.pre.database # "") =>
        /\ Carries("Surreal-NS") <=> Carries("Surreal-DB")
        /\ Carries("Surreal-NS") <=> BothSet

\* a request sent with both headers on a connection using ("ns1", "db1")
C7_Witness ==
    /\ last.sent /\ last.pre.namespace = "ns1" /\ last.pre.database = "db1"
    /\ Carries("Surreal-NS") /\ Carries("Surreal-DB")

C9_AuthenticateOnSuccess ==
    (last.op = "authenticate" /\ last.exc.type # "none") =>
        token = last.pre.token

DataOps ==
    {"create", "insert", "insert_relation", "merge", "patch", "select",
     "update", "upsert", "delete", "query", "query_raw", "info", "version"}

\* C11: after a call of create, insert, insert_relation, merge, patch, select,
\* update, upsert, delete, query, query_raw, info or version, returned or
\* raised, token, namespace, database and the bound variables are what they
\* were when the call started.
C11_DataOpsFrame ==
    last.op \in DataOps => Session = last.pre

\* a query that raised on a connection holding a token and a bound variable
C11_Witness ==
    /\ last.op = "query" /\ last.exc.type = "ProtocolError"
    /\ last.pre.token = "abc" /\ last.pre.vars = [x |-> 1]
    /\ token = "abc" /\ vars = [x |-> 1]

\* the last call was answered (HTTP success) by a payload with neither an
\* error nor a result
EmptyAnswered ==
    last.sent /\ last.resp.status = 200 /\ DOMAIN last.resp.payload = {}

\* C12: a validated call (any but query_raw) answered by a payload with
\* neither error nor result raises ProtocolError with the operation's label,
\* and leaves token, namespace and database as they were when the call
\* started (signin / signup store no token; use, authenticate and invalidate
\* change nothing).
C12_MissingResult ==
    (EmptyAnswered /\ last.op # "query_raw") =>
        /\ last.exc = ProtocolError(OperationLabel(last.op))
        /\ token = last.pre.token
        /\ namespace = last.pre.namespace
        /\ database = last.pre.database

\* C12, the part the code keeps: the same for the operations that call
\* check_response_for_result, that is all but use, authenticate, invalidate
\* (and query_raw).
C12_ResultChecked ==
    (EmptyAnswered /\ last.op \in DataOps \cup {"signin", "signup"}
                   /\ last.op # "query_raw") =>
        /\ last.exc = ProtocolError(OperationLabel(last.op))
        /\ Session = last.pre

\* C13: in every state namespace and database are both None or both assigned
\* a string; a call after which either differs from what it was when the call
\* started is a use that returned, and after a use(ns, db) that returned
\* namespace is ns and database is db.
C13_NsDbTogether ==
    /\ (namespace = NoneVal) <=> (database = NoneVal)
    /\ (namespace # last.pre.namespace \/ database # last.pre.database) =>
          last.op = "use" /\ last.exc.type = "none"
    /\ (last.op = "use" /\ last.exc.type = "none") =>
          namespace = last.args.namespace /\ database = last.args.database

\* use("ns2", "db1") returned on a connection that had neither
C13_Witness ==
    /\ last.op = "use" /\ last.exc.type = "none"
    /\ last.pre.namespace = NoneVal /\ last.pre.database = NoneVal
    /\ namespace = "ns2" /\ database = "db1"

\* C14: after let(k, v) the bound variables map k to v and every other key as
\* before; after unset(k) with k bound, k is gone and every other key is as
\* before; unset(k) with k not bound raises and leaves the bound variables,
\* token, namespace and database as they were.
C14_LetUnset ==
    LET before == last.pre.vars
    IN  /\ last.op = "let" =>
              /\ last.exc = NoExc
              /\ DOMAIN vars = DOMAIN before \cup {last.args.key}
              /\ vars[last.args.key] = last.args.value
              /\ \A k \in DOMAIN before \ {last.args.key} : vars[k] = before[k]
        /\ (last.op = "unset" /\ last.args.key \in DOMAIN before) =>
              /\ last.exc = NoExc
              /\ DOMAIN vars = DOMAIN before \ {last.args.key}
              /\ \A k \in DOMAIN vars : vars[k] = before[k]
        /\ (last.op = "unset" /\ last.args.key \notin DOMAIN before) =>
              /\ last.exc.type # "none"
              /\ Session = last.pre

\* unset("x") raised on a connection whose only bound variable is y
C14_Witness ==
    /\ last.op = "unset" /\ last.args.key = "x"
    /\ last.exc = KeyError
    /\ last.pre.vars = [y |-> 1] /\ vars = [y |-> 1]

\* C15: when a with block is left, normally or by an exception, the session
\* its entry opened is closed; and once no with block is entered any more,
\* every session the connection opened is closed, however often the
\* connection was entered.
C15_ScopedRelease ==
    /\ last.op = "__exit__" => sessions[last.args.scope] = "closed"
    /\ (scopes = <<>>) => \A i \in DOMAIN sessions : sessions[i] = "closed"

\* C15, the part the code keeps: when a with block is left, the session
\* self.session refers to, the one opened by the latest __enter__, is closed.
C15_LatestSessionClosed ==
    last.op = "__exit__" => (session # 0 /\ sessions[session] = "closed")

\* C16: the ids of the requests a connection has posted are pairwise different,
\* and the request a call posts carries the id of the envelope built in that
\* call, an id no earlier request carried (also when the call repeats one that
\* just raised).
C16_EnvelopeUniqueness ==
    /\ \A i, j \in DOMAIN posted : i # j => posted[i] # posted[j]
    /\ last.sent =>
          /\ posted # <<>>
          /\ last.req.data.id = posted[Len(posted)]
          /\ \A i \in 1..(Len(posted) - 1) : posted[i] # last.req.data.id

\* a create that raised, called again with the same arguments: two requests,
\* two ids
C16_Witness ==
    /\ last.op = "create" /\ last.repeat
    /\ Len(posted) = 2 /\ posted[1] # posted[2]

\* C17: create called with a str thing containing ":", however many, sends a
\* record reference whose table is the text before the first ":" and whose
\* identifier is all the text after the first ":" ("a:b:c" gives table "a",
\* identifier "b:c"), so that table, ":" and identifier put together give the
\* str back.
C17_SplitOnce ==
    (last.op = "create" /\ last.args.thing.type = "str"
                        /\ HasColon(last.args.thing.value)) =>
        LET s == last.args.thing.value
            sent == last.req.data.kwargs.collection
        IN  /\ sent.type = "RecordID"
            /\ sent.table_name = BeforeColon(s)
            /\ sent.identifier = AfterColon(s)
            /\ sent.table_name \o <<":">> \o sent.identifier = s

\* C17, the part the code keeps: the same for a str with exactly one ":".
C17_SplitSingle ==
    (last.op = "create" /\ last.args.thing.type = "str"
                        /\ OneColon(last.args.thing.value)) =>
        LET s == last.args.thing.value
            sent == last.req.data.kwargs.collection
        IN  /\ sent.type = "RecordID"
            /\ sent.table_name \o <<":">> \o sent.identifier = s

\* the operations that go to the server, and those that do not
DispatchOps == DataOps \cup {"signin", "signup", "authenticate", "invalidate", "use"}
LocalOps == {"let", "unset", "set_token"}

\* C18: a call of a dispatching operation posts exactly one request, whether
\* it returns or raises; when the answer has a failure status the call raises
\* the transport error (not a RemoteError or ProtocolError for what the body
\* holds) and namespace, database, the bound variables and, authenticate's
\* own token assignment apart, the token stay as they were; let, unset and
\* set_token post nothing.
C18_OneRequestPerCall ==
    [][ /\ last'.op \in DispatchOps =>
              /\ Len(posted') = Len(posted) + 1
              /\ SubSeq(posted', 1, Len(posted)) = posted
              /\ posted'[Len(posted')] = last'.req.data.id
        /\ (last'.op \in DispatchOps /\ raise_for_status(last'.resp.status)) =>
              /\ last'.exc = HTTPError(last'.resp.status)
              /\ namespace' = namespace /\ database' = database /\ vars' = vars
              /\ last'.op # "authenticate" => token' = token
        /\ last'.op \in LocalOps => posted' = posted
      ]_allVars

\* a signin answered by status 500 raised HTTPError and left the token "abc"
C18_Witness ==
    /\ last.op = "signin" /\ last.resp.status = 500
    /\ "error" \in DOMAIN last.resp.payload
    /\ last.exc.type = "HTTPError"
    /\ last.pre.token = "abc" /\ token = "abc"
    /\ Len(posted) = 1

\* C19 as stated: after any operation call, returned or raised, self.id is the
\* id of an envelope that call issued.
C19_EveryCallOverwrites ==
    last.op \in DispatchOps \cup LocalOps =>
        (last.sent /\ id = last.req.data.id)

\* C19 amended: after a call of a dispatching operation, returned or raised,
\* self.id is the id of the envelope that call built; let, unset and set_token
\* build no envelope and leave self.id alone, so self.id is always the id of
\* the latest request posted (the id __init__ drew, while none was).
C19_LastCorrelationId ==
    /\ last.op \in DispatchOps => id = last.req.data.id
    /\ id = IF posted = <<>> THEN 0 ELSE posted[Len(posted)]

\* a select that raised on a failure status, after an earlier request: self.id
\* is the select's envelope id
C19_Witness ==
    /\ last.op = "select" /\ last.exc.type = "HTTPError"
    /\ Len(posted) = 2
    /\ last.req.data.id = 2 /\ id = 2

\* C20: after a query or query_raw call that was handed a mapping, the
\* caller's mapping holds exactly the entries it held when the call started.
C20_CallerMappingKept ==
    (last.op \in {"query", "query_raw"} /\ last.args.vars # <<>>) =>
        last.args.vars_after = last.args.vars
====
